---- MODULE Spec2Model ----
(***************************************************************************)
(* DynamoDbPersistenceAdapter: the adapter's constructor, getAttributes,   *)
(* saveAttributes and deleteAttributes, the partition key generators they  *)
(* call, and the table the commands are sent to.                           *)
(***************************************************************************)
EXTENDS Integers, FiniteSets, Sequences, TLC

(***************************************************************************)
(* JavaScript values and DynamoDB attribute values.                        *)
(* A value is [t, s, m]: t its type, s its text when it is a scalar, m its *)
(* members when it is an object / a map.                                   *)
(***************************************************************************)
NoMembers == [k \in {} |-> ""]

JsUndefined == [t |-> "undefined", s |-> "", m |-> NoMembers]
JsNull == [t |-> "null", s |-> "", m |-> NoMembers]
JsString(str) == [t |-> "string", s |-> str, m |-> NoMembers]
JsBoolean(b) == [t |-> "boolean", s |-> IF b THEN "true" ELSE "false", m |-> NoMembers]
JsObject(members) == [t |-> "object", s |-> "", m |-> members]

\* `{}`
EmptyObject == JsObject(NoMembers)

\* JavaScript truthiness, as `a || b` and `a ? b : c` read it
Truthy(v) ==
    CASE v.t = "undefined" -> FALSE
      [] v.t = "null" -> FALSE
      [] v.t = "string" -> v.s # ""
      [] v.t = "boolean" -> v.s = "true"
      [] OTHER -> TRUE

AttrNull == [t |-> "NULL", s |-> "", m |-> NoMembers]
AttrS(str) == [t |-> "S", s |-> str, m |-> NoMembers]
AttrBool(str) == [t |-> "BOOL", s |-> str, m |-> NoMembers]
AttrM(members) == [t |-> "M", s |-> "", m |-> members]

\* marshallOptions: { convertEmptyValues: true }: the document client turns
\* a native value into an attribute value, an empty string into NULL
RECURSIVE marshall(_)
marshall(v) ==
    CASE v.t = "null" -> AttrNull
      [] v.t = "string" -> IF v.s = "" THEN AttrNull ELSE AttrS(v.s)
      [] v.t = "boolean" -> AttrBool(v.s)
      [] OTHER -> AttrM([k \in DOMAIN v.m |-> marshall(v.m[k])])

\* unmarshallOptions: the document client turns an attribute value back
\* into a native value
RECURSIVE unmarshall(_)
unmarshall(a) ==
    CASE a.t = "NULL" -> JsNull
      [] a.t = "S" -> JsString(a.s)
      [] a.t = "BOOL" -> [t |-> "boolean", s |-> a.s, m |-> NoMembers]
      [] OTHER -> JsObject([k \in DOMAIN a.m |-> unmarshall(a.m[k])])

\* an object of native values <-> an item of attribute values
marshallItem(obj) == [k \in DOMAIN obj |-> marshall(obj[k])]
unmarshallItem(item) == [k \in DOMAIN item |-> unmarshall(item[k])]

(***************************************************************************)
(* Errors.                                                                 *)
(***************************************************************************)
\* createAskSdkError(errorScope, errorMessage) of ask-sdk-core
createAskSdkError(errorScope, errorMessage) ==
    [name |-> "AskSdk." \o errorScope \o " Error", message |-> errorMessage]

NoError == [name |-> "", message |-> ""]

(***************************************************************************)
(* Request envelopes: the four fields the generators read; "" is a field   *)
(* that is missing.                                                        *)
(***************************************************************************)
Envelope(user, device, person, loc) ==
    [userId |-> user, deviceId |-> device, personId |-> person, locale |-> loc]

AllEnvelopes ==
    { Envelope(u, d, p, l) : u \in {"", "userId", "NonExistentKey"},
                             d \in {"", "deviceId"},
                             p \in {"", "personId"},
                             l \in {"", "userLocale"} }

(***************************************************************************)
(* PartitionKeyGenerators: a generator's outcome is [ok, value, error].    *)
(***************************************************************************)
Returned(str) == [ok |-> TRUE, value |-> str, error |-> NoError]
Thrown(err) == [ok |-> FALSE, value |-> "", error |-> err]

\* userId falling back to the device id when there is no user id
userIdOrDeviceId(requestEnvelope) ==
    CASE requestEnvelope.userId # "" -> Returned(requestEnvelope.userId)
      [] requestEnvelope.deviceId # "" -> Returned(requestEnvelope.deviceId)
      [] OTHER -> Thrown(createAskSdkError("PartitionKeyGenerators",
                            "Cannot retrieve user id from request envelope!"))

userId(requestEnvelope) ==
    IF requestEnvelope.userId # ""
    THEN Returned(requestEnvelope.userId)
    ELSE Thrown(createAskSdkError("PartitionKeyGenerators",
                                  "Cannot retrieve user id from request envelope!"))

deviceId(requestEnvelope) ==
    IF requestEnvelope.deviceId # ""
    THEN Returned(requestEnvelope.deviceId)
    ELSE Thrown(createAskSdkError("PartitionKeyGenerators",
                                  "Cannot retrieve device id from request envelope!"))

\* personId without the fallback to the user id
personIdOnly(requestEnvelope) ==
    IF requestEnvelope.personId # ""
    THEN Returned(requestEnvelope.personId)
    ELSE Thrown(createAskSdkError("PartitionKeyGenerators",
                                  "Cannot retrieve person id from request envelope!"))

personId(requestEnvelope) ==
    IF requestEnvelope.personId # ""
    THEN Returned(requestEnvelope.personId)
    ELSE userId(requestEnvelope)

userLocale(requestEnvelope) ==
    IF requestEnvelope.locale # ""
    THEN Returned(requestEnvelope.locale)
    ELSE userId(requestEnvelope)

GeneratorNames == {"userId", "deviceId", "personId", "userLocale"}

\* calling the generator the adapter holds
CallGenerator(generator, requestEnvelope) ==
    CASE generator = "userId" -> userId(requestEnvelope)
      [] generator = "deviceId" -> deviceId(requestEnvelope)
      [] generator = "personId" -> personId(requestEnvelope)
      [] OTHER -> userLocale(requestEnvelope)

(***************************************************************************)
(* The adapter's configuration and the tables of the store.                *)
(***************************************************************************)
\* this.constructor.name
ClassName == "DynamoDbPersistenceAdapter"

TableNames == {"mockTableName", "NonExistentTable", "CreateNewErrorTable"}

\* the `config` objects handed to the constructor; "" is an optional
\* field left out
Config(table, keyName, attrName, create, generator) ==
    [tableName |-> table, partitionKeyName |-> keyName, attributesName |-> attrName,
     createTable |-> create, partitionKeyGenerator |-> generator]

Configs ==
    { Config("mockTableName", "", "", FALSE, ""),
      Config("mockTableName", "", "mockAttributes", FALSE, "deviceId"),
      Config("NonExistentTable", "", "", FALSE, "userLocale"),
      Config("CreateNewErrorTable", "", "", TRUE, "personId"),
      Config("mockTableName", "", "", TRUE, "deviceId") }

\* the request envelopes the callers pass
Envelopes ==
    { Envelope("", "", "", ""),
      Envelope("userId", "deviceId", "", ""),
      Envelope("NonExistentKey", "", "", "") }

\* the attributes documents the callers save
Documents ==
    { EmptyObject,
      JsObject([k \in {"defaultKey"} |-> JsString("")]),
      JsObject([k \in {"customKey"} |-> JsString("customValue")]) }

KeyStrings == {"userId", "NonExistentKey", "deviceId", "personId", "userLocale"}

\* the items mockTableName holds when the adapter is constructed, other
\* writers' among them
InitialItems ==
    { ("id" :> AttrS("userId"))
         @@ ("attributes" :> AttrM(("defaultKey" :> AttrS("defaultValue"))))
         @@ ("updatedAt" :> AttrS("today")),
      ("id" :> AttrS("deviceId")) @@ ("attributes" :> AttrNull) }

(***************************************************************************)
(* State.                                                                  *)
(***************************************************************************)
VARIABLES
    constructed,            \* "no", "returned" or "threw": how `new` ended
    tableName,              \* this.tableName
    partitionKeyName,       \* this.partitionKeyName
    attributesName,         \* this.attributesName
    createTable,            \* this.createTable
    partitionKeyGenerator,  \* this.partitionKeyGenerator
    createTablePromise,     \* send(new CreateTableCommand(..)): [state, error]
    unhandledRejection,     \* the error the .catch() callback threw, if any
    tableKeySchema,         \* the store: each table's hash key name, "" if no table
    tableItems,             \* the store: each table's items
    calls,                  \* the invocations of the three operations
    lastWrite,              \* per key, the mutation the store applied last
                            \* and the one before it
    invocations,            \* how many invocations have begun
    genEnvelope,            \* the envelope the generators are applied to
    genResult               \* each generator's outcome on genEnvelope

adapterVars == <<constructed, tableName, partitionKeyName, attributesName,
                 createTable, partitionKeyGenerator>>
createVars == <<createTablePromise, unhandledRejection>>
storeVars == <<tableKeySchema, tableItems>>
historyVars == <<lastWrite, invocations>>
genVars == <<genEnvelope, genResult>>
vars == <<adapterVars, createVars, storeVars, calls, historyVars, genVars>>

Callers == {"c1", "c2"}

\* the invocations one behaviour begins
MaxInvocations == 3

NoStoreError == [code |-> "", message |-> ""]
NoCommand == [cmd |-> "", TableName |-> "", Key |-> NoMembers, Item |-> NoMembers,
              ConsistentRead |-> FALSE]
NoResponse == [ok |-> TRUE, Item |-> {}, error |-> NoStoreError]
NoWrite == [kind |-> "none", doc |-> JsUndefined, prevKind |-> "none",
            prevDoc |-> JsUndefined, raced |-> FALSE]
Pending == [state |-> "pending", value |-> JsUndefined, error |-> NoError]
Resolved(v) == [state |-> "resolved", value |-> v, error |-> NoError]
Rejected(err) == [state |-> "rejected", value |-> JsUndefined, error |-> err]

IdleCall ==
    [pc |-> "idle", op |-> "", requestEnvelope |-> Envelope("", "", "", ""),
     attributes |-> JsUndefined, attributesId |-> "", command |-> NoCommand,
     requests |-> 0, response |-> NoResponse, seen |-> NoWrite, outcome |-> Pending]

(***************************************************************************)
(* The store: one table per name, one item per hash key value.             *)
(***************************************************************************)
ResourceNotFound ==
    [code |-> "ResourceNotFoundException", message |-> "Requested resource not found"]
ResourceInUse ==
    [code |-> "ResourceInUseException", message |-> "Requested resource in use"]
CreateTableFailure ==
    [code |-> "InternalServerError", message |-> "Unable to create table"]
ValidationFailure ==
    [code |-> "ValidationException",
     message |-> "The provided key element does not match the schema"]
ServiceUnavailable ==
    [code |-> "ServiceUnavailable", message |-> "Service unavailable"]

Failed(err) == [ok |-> FALSE, Item |-> {}, error |-> err]

\* whether `fields` holds the table's hash key, as a string
HasKey(fields, keyName) == keyName \in DOMAIN fields /\ fields[keyName].t = "S"

\* the error the store answers `command` with; NoStoreError when it serves it
StoreError(command) ==
    LET keyName == tableKeySchema[command.TableName]
    IN  CASE keyName = "" -> ResourceNotFound
          [] command.cmd = "Put" /\ ~HasKey(command.Item, keyName) -> ValidationFailure
          [] command.cmd # "Put"
             /\ ~(HasKey(command.Key, keyName) /\ DOMAIN command.Key = {keyName})
               -> ValidationFailure
          [] OTHER -> NoStoreError

\* the key value `command` addresses
CommandKey(command) ==
    LET keyName == tableKeySchema[command.TableName]
    IN  IF command.cmd = "Put" THEN command.Item[keyName].s ELSE command.Key[keyName].s

\* the items of `command`'s table stored under its key
Stored(command) ==
    LET keyName == tableKeySchema[command.TableName]
    IN  { item \in tableItems[command.TableName] : item[keyName].s = CommandKey(command) }

\* the store's answer to `command`
StoreResponse(command) ==
    IF StoreError(command) # NoStoreError THEN Failed(StoreError(command))
    ELSE IF command.cmd = "Get"
         THEN [ok |-> TRUE, Item |-> Stored(command), error |-> NoStoreError]
         ELSE NoResponse

\* StoreItems with a put that updates the stored item, keeping the members
\* the new item does not set
StoreItemsMerged(command) ==
    LET items == tableItems[command.TableName]
        merged(old) ==
            [k \in DOMAIN old \cup DOMAIN command.Item |->
                CASE k \notin DOMAIN command.Item -> old[k]
                  [] k \in DOMAIN old /\ old[k].t = "M" /\ command.Item[k].t = "M" ->
                        AttrM(command.Item[k].m @@ old[k].m)
                  [] OTHER -> command.Item[k]]
    IN  CASE StoreError(command) # NoStoreError -> items
          [] command.cmd = "Put" /\ Stored(command) = {} -> items \cup {command.Item}
          [] command.cmd = "Put" ->
                (items \ Stored(command)) \cup {merged(old) : old \in Stored(command)}
          [] command.cmd = "Delete" -> items \ Stored(command)
          [] OTHER -> items

\* the items of `command`'s table once the store has served it: a put
\* replaces the whole item, a delete removes it
StoreItems(command) ==
    LET items == tableItems[command.TableName]
    IN  CASE StoreError(command) # NoStoreError -> items
          [] command.cmd = "Put" -> (items \ Stored(command)) \cup {command.Item}
          [] command.cmd = "Delete" -> items \ Stored(command)
          [] OTHER -> items

(***************************************************************************)
(* The constructor.                                                        *)
(***************************************************************************)
NoPromise == [state |-> "none", TableName |-> "", AttributeName |-> "",
              error |-> NoStoreError]

\* the promise of send(new CreateTableCommand(createTableParams))
CreateTableSent ==
    [state |-> "pending", TableName |-> tableName', AttributeName |-> partitionKeyName',
     error |-> NoStoreError]

\* new DynamoDbPersistenceAdapter(config)
Constructor(config) ==
    /\ constructed = "no"
    /\ tableName' = config.tableName
    /\ partitionKeyName' =
          IF config.partitionKeyName # "" THEN config.partitionKeyName ELSE "id"
    /\ attributesName' =
          IF config.attributesName # "" THEN config.attributesName ELSE "attributes"
    /\ createTable' = (config.createTable = TRUE)
    /\ partitionKeyGenerator' =
          IF config.partitionKeyGenerator # "" THEN config.partitionKeyGenerator
          ELSE "userId"
    /\ createTablePromise' = IF createTable' THEN CreateTableSent ELSE NoPromise
    /\ constructed' = "returned"
    /\ UNCHANGED <<unhandledRejection, storeVars, calls, historyVars, genVars>>

\* the store serves the CreateTableCommand
StoreCreateTable ==
    /\ createTablePromise.state = "pending"
    /\ \E fails \in BOOLEAN :
          LET table == createTablePromise.TableName
              err == CASE tableKeySchema[table] # "" -> ResourceInUse
                       [] fails -> CreateTableFailure
                       [] OTHER -> NoStoreError
          IN  /\ createTablePromise' =
                    [createTablePromise EXCEPT
                        !.state = IF err = NoStoreError THEN "fulfilled" ELSE "rejected",
                        !.error = err]
              /\ tableKeySchema' =
                    IF err = NoStoreError
                    THEN [tableKeySchema EXCEPT ![table] = createTablePromise.AttributeName]
                    ELSE tableKeySchema
    /\ UNCHANGED <<adapterVars, unhandledRejection, tableItems, calls, historyVars, genVars>>

\* what the callback of .catch() throws for `error`; NoError when it returns
CatchCallback(error) ==
    IF error.code # "ResourceInUseException"
    THEN createAskSdkError(ClassName,
            "Could not create table (" \o tableName \o "): " \o error.message)
    ELSE NoError

\* the callback given to .catch() runs, after the constructor has returned
CatchCreateTable ==
    /\ createTablePromise.state = "rejected"
    /\ createTablePromise' = [createTablePromise EXCEPT !.state = "caught"]
    /\ unhandledRejection' = CatchCallback(createTablePromise.error)
    /\ UNCHANGED <<adapterVars, storeVars, calls, historyVars, genVars>>

(***************************************************************************)
(* getAttributes, saveAttributes, deleteAttributes: each runs to its       *)
(* await, the store serves the command, and the function resumes.          *)
(***************************************************************************)
\* const getParams: GetCommandInput, as the document client sends it
getParams(attributesId) ==
    [cmd |-> "Get", TableName |-> tableName,
     Key |-> marshallItem((partitionKeyName :> JsString(attributesId))),
     Item |-> NoMembers, ConsistentRead |-> TRUE]

\* putParams with the user id of the tests as the key, whatever the
\* identifier
putParamsUserIdKey(attributesId, attributes) ==
    [cmd |-> "Put", TableName |-> tableName, Key |-> NoMembers,
     Item |-> marshallItem((attributesName :> attributes)
                           @@ (partitionKeyName :> JsString("userId"))),
     ConsistentRead |-> FALSE]

\* putParams with the attributes field's default name in place of
\* this.attributesName
putParamsDefaultName(attributesId, attributes) ==
    [cmd |-> "Put", TableName |-> tableName, Key |-> NoMembers,
     Item |-> marshallItem(("attributes" :> attributes)
                           @@ (partitionKeyName :> JsString(attributesId))),
     ConsistentRead |-> FALSE]

\* const putParams: PutCommandInput; in the object literal the later of two
\* equal property names wins
putParams(attributesId, attributes) ==
    [cmd |-> "Put", TableName |-> tableName, Key |-> NoMembers,
     Item |-> marshallItem((attributesName :> attributes)
                           @@ (partitionKeyName :> JsString(attributesId))),
     ConsistentRead |-> FALSE]

\* deleteParams as getAttributes builds its command
deleteParamsAsGet(attributesId) ==
    [cmd |-> "Get", TableName |-> tableName,
     Key |-> marshallItem((partitionKeyName :> JsString(attributesId))),
     Item |-> NoMembers, ConsistentRead |-> TRUE]

\* const deleteParams: DeleteCommandInput
deleteParams(attributesId) ==
    [cmd |-> "Delete", TableName |-> tableName,
     Key |-> marshallItem((partitionKeyName :> JsString(attributesId))),
     Item |-> NoMembers, ConsistentRead |-> FALSE]

\* GeneratorThrew with the exception caught and wrapped as a store failure
GeneratorThrewWrapped(op, requestEnvelope, attributes, error) ==
    [IdleCall EXCEPT !.pc = "done", !.op = op, !.requestEnvelope = requestEnvelope,
                     !.attributes = attributes,
                     !.outcome = Rejected(createAskSdkError(ClassName,
                        "Could not read item () from table (" \o tableName \o "): "
                        \o error.message))]

\* an invocation the generator's exception ends
GeneratorThrew(op, requestEnvelope, attributes, error) ==
    [IdleCall EXCEPT !.pc = "done", !.op = op, !.requestEnvelope = requestEnvelope,
                     !.attributes = attributes, !.outcome = Rejected(error)]

\* an invocation suspended at `await send(command)`
Awaiting(op, requestEnvelope, attributes, attributesId, command) ==
    [IdleCall EXCEPT !.pc = "awaiting", !.op = op, !.requestEnvelope = requestEnvelope,
                     !.attributes = attributes, !.attributesId = attributesId,
                     !.command = command]

\* getAttributes up to its await
getAttributesCall(requestEnvelope) ==
    LET attributesId == CallGenerator(partitionKeyGenerator, requestEnvelope)
    IN  IF ~attributesId.ok
        THEN GeneratorThrew("getAttributes", requestEnvelope, JsUndefined,
                            attributesId.error)
        ELSE Awaiting("getAttributes", requestEnvelope, JsUndefined,
                      attributesId.value, getParams(attributesId.value))

\* saveAttributesCall that builds and sends the command whether the
\* generator returned or threw
saveAttributesCallUnchecked(requestEnvelope, attributes) ==
    LET attributesId == CallGenerator(partitionKeyGenerator, requestEnvelope)
    IN  Awaiting("saveAttributes", requestEnvelope, attributes,
                 attributesId.value, putParams(attributesId.value, attributes))

\* saveAttributes up to its await
saveAttributesCall(requestEnvelope, attributes) ==
    LET attributesId == CallGenerator(partitionKeyGenerator, requestEnvelope)
    IN  IF ~attributesId.ok
        THEN GeneratorThrew("saveAttributes", requestEnvelope, attributes,
                            attributesId.error)
        ELSE Awaiting("saveAttributes", requestEnvelope, attributes,
                      attributesId.value, putParams(attributesId.value, attributes))

\* deleteAttributes up to its await
deleteAttributesCall(requestEnvelope) ==
    LET attributesId == CallGenerator(partitionKeyGenerator, requestEnvelope)
    IN  IF ~attributesId.ok
        THEN GeneratorThrew("deleteAttributes", requestEnvelope, JsUndefined,
                            attributesId.error)
        ELSE Awaiting("deleteAttributes", requestEnvelope, JsUndefined,
                      attributesId.value, deleteParams(attributesId.value))

\* getAttributesResult without the `|| {}`
getAttributesResultNoDefault(response) ==
    IF response.Item # {}
    THEN LET Item == unmarshallItem(CHOOSE item \in response.Item : TRUE)
         IN  IF attributesName \in DOMAIN Item THEN Item[attributesName]
             ELSE JsUndefined
    ELSE EmptyObject

\* data.Item[this.attributesName] || {}, or {} when there is no data.Item
getAttributesResult(response) ==
    IF response.Item # {}
    THEN LET Item == unmarshallItem(CHOOSE item \in response.Item : TRUE)
             field == IF attributesName \in DOMAIN Item THEN Item[attributesName]
                      ELSE JsUndefined
         IN  IF Truthy(field) THEN field ELSE EmptyObject
    ELSE EmptyObject

\* getAttributesResumed with one more try after a failure
getAttributesResumedRetry(call) ==
    IF ~call.response.ok /\ call.requests < 2
    THEN [call EXCEPT !.pc = "awaiting"]
    ELSE IF ~call.response.ok
    THEN [call EXCEPT !.pc = "done", !.outcome = Rejected(createAskSdkError(ClassName,
            "Could not read item (" \o call.attributesId \o ") from table ("
            \o call.command.TableName \o "): " \o call.response.error.message))]
    ELSE [call EXCEPT !.pc = "done",
                      !.outcome = Resolved(getAttributesResult(call.response))]

\* getAttributes from its await on
getAttributesResumed(call) ==
    IF ~call.response.ok
    THEN [call EXCEPT !.pc = "done", !.outcome = Rejected(createAskSdkError(ClassName,
            "Could not read item (" \o call.attributesId \o ") from table ("
            \o call.command.TableName \o "): " \o call.response.error.message))]
    ELSE [call EXCEPT !.pc = "done",
                      !.outcome = Resolved(getAttributesResult(call.response))]

\* saveAttributesResumed with the message of deleteAttributes
saveAttributesResumedAsDelete(call) ==
    IF ~call.response.ok
    THEN [call EXCEPT !.pc = "done", !.outcome = Rejected(createAskSdkError(ClassName,
            "Could not delete item (" \o call.attributesId \o ") from table ("
            \o call.command.TableName \o "): " \o call.response.error.message))]
    ELSE [call EXCEPT !.pc = "done", !.outcome = Resolved(JsUndefined)]

\* saveAttributes from its await on
saveAttributesResumed(call) ==
    IF ~call.response.ok
    THEN [call EXCEPT !.pc = "done", !.outcome = Rejected(createAskSdkError(ClassName,
            "Could not save item (" \o call.attributesId \o ") to table ("
            \o call.command.TableName \o "): " \o call.response.error.message))]
    ELSE [call EXCEPT !.pc = "done", !.outcome = Resolved(JsUndefined)]

\* deleteAttributes from its await on
deleteAttributesResumed(call) ==
    IF ~call.response.ok
    THEN [call EXCEPT !.pc = "done", !.outcome = Rejected(createAskSdkError(ClassName,
            "Could not delete item (" \o call.attributesId \o ") from table ("
            \o call.command.TableName \o "): " \o call.response.error.message))]
    ELSE [call EXCEPT !.pc = "done", !.outcome = Resolved(JsUndefined)]

CanInvoke(c) ==
    /\ constructed = "returned"
    /\ calls[c].pc \in {"idle", "done"}
    /\ invocations < MaxInvocations

getAttributes(c, requestEnvelope) ==
    /\ CanInvoke(c)
    /\ calls' = [calls EXCEPT ![c] = getAttributesCall(requestEnvelope)]
    /\ invocations' = invocations + 1
    /\ UNCHANGED <<adapterVars, createVars, storeVars, lastWrite, genVars>>

saveAttributes(c, requestEnvelope, attributes) ==
    /\ CanInvoke(c)
    /\ calls' = [calls EXCEPT ![c] = saveAttributesCall(requestEnvelope, attributes)]
    /\ invocations' = invocations + 1
    /\ UNCHANGED <<adapterVars, createVars, storeVars, lastWrite, genVars>>

deleteAttributes(c, requestEnvelope) ==
    /\ CanInvoke(c)
    /\ calls' = [calls EXCEPT ![c] = deleteAttributesCall(requestEnvelope)]
    /\ invocations' = invocations + 1
    /\ UNCHANGED <<adapterVars, createVars, storeVars, lastWrite, genVars>>

\* whether another invocation is saving the same identifier and has not
\* ended
Racing(c) ==
    \E other \in Callers \ {c} :
        /\ calls[other].pc \in {"awaiting", "settled"}
        /\ calls[other].op = "saveAttributes"
        /\ calls[other].attributesId = calls[c].attributesId

\* the mutation record of invocation c's identifier once its operation has
\* been applied
Applied(c, kind) ==
    [kind |-> kind, doc |-> calls[c].attributes,
     prevKind |-> lastWrite[calls[c].attributesId].kind,
     prevDoc |-> lastWrite[calls[c].attributesId].doc,
     raced |-> Racing(c)]

\* the store serves, or fails to serve, the command of invocation c
StoreServe(c) ==
    /\ calls[c].pc = "awaiting"
    /\ \E unavailable \in BOOLEAN :
          LET command == calls[c].command
              response == IF unavailable THEN Failed(ServiceUnavailable)
                          ELSE StoreResponse(command)
          IN  /\ tableItems' =
                    IF response.ok
                    THEN [tableItems EXCEPT ![command.TableName] = StoreItems(command)]
                    ELSE tableItems
              /\ lastWrite' =
                    CASE response.ok /\ calls[c].op = "saveAttributes" ->
                            [lastWrite EXCEPT ![calls[c].attributesId] = Applied(c, "put")]
                      [] response.ok /\ calls[c].op = "deleteAttributes" ->
                            [lastWrite EXCEPT ![calls[c].attributesId] = Applied(c, "delete")]
                      [] OTHER -> lastWrite
              /\ calls' = [calls EXCEPT ![c].pc = "settled",
                                        ![c].requests = @ + 1,
                                        ![c].response = response,
                                        ![c].seen =
                                            IF response.ok /\ calls[c].op = "getAttributes"
                                            THEN lastWrite[calls[c].attributesId]
                                            ELSE NoWrite]
    /\ UNCHANGED <<adapterVars, createVars, tableKeySchema, invocations, genVars>>

getAttributesResume(c) ==
    /\ calls[c].pc = "settled" /\ calls[c].op = "getAttributes"
    /\ calls' = [calls EXCEPT ![c] = getAttributesResumed(calls[c])]
    /\ UNCHANGED <<adapterVars, createVars, storeVars, historyVars, genVars>>

saveAttributesResume(c) ==
    /\ calls[c].pc = "settled" /\ calls[c].op = "saveAttributes"
    /\ calls' = [calls EXCEPT ![c] = saveAttributesResumed(calls[c])]
    /\ UNCHANGED <<adapterVars, createVars, storeVars, historyVars, genVars>>

deleteAttributesResume(c) ==
    /\ calls[c].pc = "settled" /\ calls[c].op = "deleteAttributes"
    /\ calls' = [calls EXCEPT ![c] = deleteAttributesResumed(calls[c])]
    /\ UNCHANGED <<adapterVars, createVars, storeVars, historyVars, genVars>>

(***************************************************************************)
(* The specification of the adapter.                                       *)
(***************************************************************************)
NoGenResult == [g \in GeneratorNames |-> [ran |-> FALSE, result |-> Returned("")]]

Init ==
    /\ constructed = "no"
    /\ tableName = ""
    /\ partitionKeyName = ""
    /\ attributesName = ""
    /\ createTable = FALSE
    /\ partitionKeyGenerator = ""
    /\ createTablePromise = NoPromise
    /\ unhandledRejection = NoError
    /\ tableKeySchema = [t \in TableNames |-> IF t = "mockTableName" THEN "id" ELSE ""]
    /\ tableItems = [t \in TableNames |->
                        IF t = "mockTableName" THEN InitialItems ELSE {}]
    /\ calls = [c \in Callers |-> IdleCall]
    /\ lastWrite = [key \in KeyStrings |-> NoWrite]
    /\ invocations = 0
    /\ genEnvelope = Envelope("", "", "", "")
    /\ genResult = NoGenResult

Next ==
    \/ \E config \in Configs : Constructor(config)
    \/ StoreCreateTable
    \/ CatchCreateTable
    \/ \E c \in Callers, requestEnvelope \in Envelopes :
          getAttributes(c, requestEnvelope)
    \/ \E c \in Callers, requestEnvelope \in Envelopes, attributes \in Documents :
          saveAttributes(c, requestEnvelope, attributes)
    \/ \E c \in Callers, requestEnvelope \in Envelopes :
          deleteAttributes(c, requestEnvelope)
    \/ \E c \in Callers : StoreServe(c)
    \/ \E c \in Callers : getAttributesResume(c)
    \/ \E c \in Callers : saveAttributesResume(c)
    \/ \E c \in Callers : deleteAttributesResume(c)

Spec == Init /\ [][Next]_vars

(***************************************************************************)
(* The specification of the generators alone: every generator applied to   *)
(* one request envelope, any of AllEnvelopes.                              *)
(***************************************************************************)
Generate(generator) ==
    /\ ~genResult[generator].ran
    /\ genResult' = [genResult EXCEPT
                        ![generator] = [ran |-> TRUE,
                                        result |-> CallGenerator(generator, genEnvelope)]]
    /\ UNCHANGED <<adapterVars, createVars, storeVars, calls, historyVars, genEnvelope>>

InitGen ==
    /\ constructed = "no"
    /\ tableName = ""
    /\ partitionKeyName = ""
    /\ attributesName = ""
    /\ createTable = FALSE
    /\ partitionKeyGenerator = ""
    /\ createTablePromise = NoPromise
    /\ unhandledRejection = NoError
    /\ tableKeySchema = [t \in TableNames |-> ""]
    /\ tableItems = [t \in TableNames |-> {}]
    /\ calls = [c \in Callers |-> IdleCall]
    /\ lastWrite = [key \in KeyStrings |-> NoWrite]
    /\ invocations = 0
    /\ genEnvelope \in AllEnvelopes
    /\ genResult = NoGenResult

NextGen == \E generator \in GeneratorNames : Generate(generator)

SpecGen == InitGen /\ [][NextGen]_vars

(***************************************************************************)
(* Properties.                                                             *)
(***************************************************************************)
\* the invocations of `op` that have ended
Ended(op) == { c \in Callers : calls[c].pc = "done" /\ calls[c].op = op }

\* the getAttributes invocations the store served right after it applied a
\* mutation of `kind` to their identifier
ReadAfter(kind) ==
    { c \in Ended("getAttributes") : calls[c].response.ok /\ calls[c].seen.kind = kind }

\* a document with every empty string in it replaced by null
RECURSIVE EmptyAsNull(_)
EmptyAsNull(v) ==
    CASE v.t = "string" /\ v.s = "" -> JsNull
      [] v.t = "object" -> JsObject([k \in DOMAIN v.m |-> EmptyAsNull(v.m[k])])
      [] OTHER -> v

\* C1, as claimed: a getAttributes served right after a successful
\* saveAttributes(context, D) for the same identifier returns exactly D.
C1_RoundTripExact ==
    \A c \in ReadAfter("put") : calls[c].outcome = Resolved(calls[c].seen.doc)

\* C1, amended: a getAttributes served right after a successful
\* saveAttributes(context, D) for the same identifier returns D with every
\* empty string in it replaced by null, hence exactly D when D holds no
\* empty string (the empty mapping included).
C1_RoundTripEmptyAsNull ==
    \A c \in ReadAfter("put") :
        /\ calls[c].outcome = Resolved(EmptyAsNull(calls[c].seen.doc))
        /\ EmptyAsNull(calls[c].seen.doc) = calls[c].seen.doc
              => calls[c].outcome.value = calls[c].seen.doc

C1_Witness ==
    \E c \in ReadAfter("put") :
        /\ calls[c].seen.doc = JsObject(("customKey" :> JsString("customValue")))
        /\ calls[c].outcome = Resolved(calls[c].seen.doc)
        /\ attributesName = "mockAttributes"

\* the identifier the configured generator gives invocation c
IdentifierOf(c) == CallGenerator(partitionKeyGenerator, calls[c].requestEnvelope).value

\* the message the adapter's error carries for invocation c
WrappedMessage(c) ==
    LET phrase == CASE calls[c].op = "getAttributes" -> <<"read", "from">>
                    [] calls[c].op = "saveAttributes" -> <<"save", "to">>
                    [] OTHER -> <<"delete", "from">>
    IN  "Could not " \o phrase[1] \o " item (" \o IdentifierOf(c) \o ") " \o phrase[2]
        \o " table (" \o tableName \o "): " \o calls[c].response.error.message

\* C2: an invocation whose store call failed is rejected with an error named
\* 'AskSdk.DynamoDbPersistenceAdapter Error' whose message is 'Could not
\* <read|save|delete> item (<identifier>) <from|to|from> table (<tableName>):
\* <underlying message>'.
C2_ErrorWrapping ==
    \A c \in Callers :
        (calls[c].pc = "done" /\ ~calls[c].response.ok) =>
            /\ calls[c].outcome.state = "rejected"
            /\ calls[c].outcome.error.name = "AskSdk.DynamoDbPersistenceAdapter Error"
            /\ calls[c].outcome.error.message = WrappedMessage(c)

C2_Witness ==
    \E c \in Ended("saveAttributes") :
        /\ ~calls[c].response.ok
        /\ calls[c].outcome.error.message =
              "Could not save item (userId) to table (NonExistentTable): Requested resource not found"

\* C3, as claimed: a create-table failure other than 'table already exists'
\* is thrown by the constructor itself, never after it has returned an
\* adapter; 'table already exists' leaves construction without an error.
C3_CreateFailureThrownByConstructor ==
    /\ unhandledRejection = NoError
    /\ (createTablePromise.state \in {"rejected", "caught"}
        /\ createTablePromise.error.code # "ResourceInUseException")
          => constructed = "threw"

\* the state the claim is about: the constructor has returned the adapter
\* and the create-table failure is thrown afterwards, to nobody
C3_DeferredFailure ==
    /\ constructed = "returned"
    /\ unhandledRejection =
          [name |-> "AskSdk.DynamoDbPersistenceAdapter Error",
           message |-> "Could not create table (CreateNewErrorTable): Unable to create table"]

\* the field of the item a getAttributes was answered with, as a native
\* value; undefined when the item has no such field
FieldOf(c, name) ==
    LET item == CHOOSE item \in calls[c].response.Item : TRUE
    IN  IF name \in DOMAIN item THEN unmarshall(item[name]) ELSE JsUndefined

\* the getAttributes invocations the store answered, with an item or without
Answered(withItem) ==
    { c \in Ended("getAttributes") :
        /\ calls[c].requests = 1
        /\ calls[c].response.ok
        /\ (calls[c].response.Item # {}) = withItem }

\* C4, as claimed: when the record carries the attributes field the result
\* is exactly the value of that field; without the field, or without a
\* record, the result is the empty mapping.
C4_ResultIsFieldValue ==
    /\ \A c \in Answered(TRUE) :
          calls[c].outcome =
              IF FieldOf(c, attributesName) # JsUndefined
              THEN Resolved(FieldOf(c, attributesName))
              ELSE Resolved(EmptyObject)
    /\ \A c \in Answered(FALSE) : calls[c].outcome = Resolved(EmptyObject)

\* C4, amended: the result is the value of the record's attributes field
\* when that value is truthy, and the empty mapping when the field is
\* missing or holds a falsy value (null, false, the empty string) or when
\* there is no record; no other field of the record shows in the result.
C4_ResultIsTruthyFieldValue ==
    /\ \A c \in Answered(TRUE) :
          /\ calls[c].outcome =
                IF Truthy(FieldOf(c, attributesName))
                THEN Resolved(FieldOf(c, attributesName))
                ELSE Resolved(EmptyObject)
          /\ \A name \in DOMAIN calls[c].outcome.value.m :
                FieldOf(c, name) = JsUndefined
    /\ \A c \in Answered(FALSE) : calls[c].outcome = Resolved(EmptyObject)

C4_Witness ==
    \E c \in Answered(TRUE) :
        /\ FieldOf(c, "updatedAt") # JsUndefined
        /\ calls[c].outcome =
              Resolved(JsObject(("defaultKey" :> JsString("defaultValue"))))

\* C5: a getAttributes served right after a successful deleteAttributes for
\* the same identifier returns the empty mapping, whether the delete found a
\* record or not and whether it was the first delete or a repeated one; a
\* delete the store accepted resolves.
C5_DeleteThenRead ==
    /\ \A c \in ReadAfter("delete") : calls[c].outcome = Resolved(EmptyObject)
    /\ \A c \in Ended("deleteAttributes") :
          (calls[c].requests = 1 /\ calls[c].response.ok)
              => calls[c].outcome = Resolved(JsUndefined)

C5_Witness ==
    \E c \in ReadAfter("delete") :
        /\ calls[c].seen.prevKind = "delete"
        /\ calls[c].outcome = Resolved(EmptyObject)

\* C6: when the configured generator fails for the context, the invocation
\* is rejected with the generator's own error: its name is that of the
\* generators, not the adapter's, and its message is the generator's, not a
\* 'Could not <verb> item' one.
C6_GeneratorErrorUnwrapped ==
    \A c \in Callers :
        (calls[c].pc = "done"
         /\ ~CallGenerator(partitionKeyGenerator, calls[c].requestEnvelope).ok) =>
            /\ calls[c].outcome.state = "rejected"
            /\ calls[c].outcome.error.name = "AskSdk.PartitionKeyGenerators Error"
            /\ calls[c].outcome.error.message \in
                  {"Cannot retrieve user id from request envelope!",
                   "Cannot retrieve device id from request envelope!"}
            /\ calls[c].outcome.error =
                  CallGenerator(partitionKeyGenerator, calls[c].requestEnvelope).error

C6_Witness ==
    /\ \E c \in Ended("saveAttributes") :
          calls[c].outcome.error.message = "Cannot retrieve device id from request envelope!"
    /\ \E c \in Ended("getAttributes") \cup Ended("deleteAttributes") :
          calls[c].outcome.error.message = "Cannot retrieve device id from request envelope!"

\* the error a strategy fails with when there is no `what` id
IdentifierUnavailable(what) ==
    [ok |-> FALSE, value |-> "",
     error |-> [name |-> "AskSdk.PartitionKeyGenerators Error",
                message |-> "Cannot retrieve " \o what \o " id from request envelope!"]]

\* the identifier `str` as a strategy's result
Identifier(str) == [ok |-> TRUE, value |-> str, error |-> NoError]

\* the results of the strategies that have been applied to genEnvelope
ResultOf(generator) == genResult[generator].result
Ran(generators) == \A generator \in generators : genResult[generator].ran

\* C7: the user-id strategy returns the user identifier when present and
\* otherwise fails with 'Cannot retrieve user id from request envelope!';
\* the device-id strategy returns the device identifier when present and
\* otherwise fails with 'Cannot retrieve device id from request envelope!';
\* no other field of the context changes either result.
C7_UserAndDeviceStrategies ==
    /\ Ran({"userId"}) =>
          ResultOf("userId") = IF genEnvelope.userId # ""
                               THEN Identifier(genEnvelope.userId)
                               ELSE IdentifierUnavailable("user")
    /\ Ran({"deviceId"}) =>
          ResultOf("deviceId") = IF genEnvelope.deviceId # ""
                                 THEN Identifier(genEnvelope.deviceId)
                                 ELSE IdentifierUnavailable("device")

C7_Witness ==
    /\ Ran({"userId", "deviceId"})
    /\ genEnvelope.userId = "" /\ genEnvelope.deviceId = ""
    /\ genEnvelope.personId # "" /\ genEnvelope.locale # ""
    /\ ~ResultOf("userId").ok /\ ~ResultOf("deviceId").ok

\* C8: the person-id strategy returns the person identifier when present and
\* the locale strategy the locale when present, whatever the user
\* identifier; without their own field each has the outcome of the user-id
\* strategy on the same context. So with user identifier U and no device,
\* person or locale field, user-id, person-id and locale all return U and
\* device-id fails.
C8_PersonAndLocaleStrategies ==
    /\ Ran({"personId"}) =>
          ResultOf("personId") =
              CASE genEnvelope.personId # "" -> Identifier(genEnvelope.personId)
                [] genEnvelope.userId # "" -> Identifier(genEnvelope.userId)
                [] OTHER -> IdentifierUnavailable("user")
    /\ Ran({"userLocale"}) =>
          ResultOf("userLocale") =
              CASE genEnvelope.locale # "" -> Identifier(genEnvelope.locale)
                [] genEnvelope.userId # "" -> Identifier(genEnvelope.userId)
                [] OTHER -> IdentifierUnavailable("user")
    /\ (Ran({"personId", "userId"}) /\ genEnvelope.personId = "") =>
          ResultOf("personId") = ResultOf("userId")
    /\ (Ran({"userLocale", "userId"}) /\ genEnvelope.locale = "") =>
          ResultOf("userLocale") = ResultOf("userId")
    /\ (Ran(GeneratorNames) /\ genEnvelope.userId # "" /\ genEnvelope.deviceId = ""
        /\ genEnvelope.personId = "" /\ genEnvelope.locale = "") =>
          /\ \A generator \in {"userId", "personId", "userLocale"} :
                ResultOf(generator) = Identifier(genEnvelope.userId)
          /\ ~ResultOf("deviceId").ok

C8_Witness ==
    /\ Ran(GeneratorNames)
    /\ genEnvelope = Envelope("userId", "", "", "")
    /\ ResultOf("personId") = Identifier("userId")
    /\ ResultOf("userLocale") = Identifier("userId")
    /\ ~ResultOf("deviceId").ok

\* the getAttributes invocations the store served right after it applied a
\* save that overwrote an earlier save of the same identifier
ReadAfterOverwrite == { c \in ReadAfter("put") : calls[c].seen.prevKind = "put" }

\* C9, as claimed: once saves for one identifier have been applied, a
\* getAttributes returns exactly the document of the save applied last.
C9_LastWriteWinsExact ==
    \A c \in ReadAfterOverwrite : calls[c].outcome.value = calls[c].seen.doc

\* C9, amended: once saves for one identifier have been applied, in sequence
\* or racing, a getAttributes returns the document of the save applied last
\* with its empty strings read as null: it has that document's keys and no
\* others, and nothing of the document it replaced.
C9_LastWriteWins ==
    \A c \in ReadAfterOverwrite :
        /\ calls[c].outcome.state = "resolved"
        /\ calls[c].outcome.value.t = "object"
        /\ DOMAIN calls[c].outcome.value.m = DOMAIN calls[c].seen.doc.m
        /\ \A k \in DOMAIN calls[c].seen.doc.m :
              calls[c].outcome.value.m[k] = EmptyAsNull(calls[c].seen.doc.m[k])

C9_Witness ==
    \E c \in ReadAfterOverwrite :
        /\ calls[c].seen.raced
        /\ calls[c].seen.prevDoc = JsObject(("customKey" :> JsString("customValue")))
        /\ calls[c].seen.doc = JsObject(("defaultKey" :> JsString("")))
        /\ calls[c].outcome = Resolved(JsObject(("defaultKey" :> JsNull)))

\* C10: an invocation has at most one command served by the store, and one
\* whose command failed ends rejected after that single request.
C10_NoRetryNoSwallow ==
    \A c \in Callers :
        /\ calls[c].requests <= 1
        /\ (calls[c].pc = "done" /\ ~calls[c].response.ok) =>
              (calls[c].outcome.state = "rejected" /\ calls[c].requests = 1)
        /\ calls[c].pc = "done" => calls[c].outcome.state # "pending"

C10_Witness ==
    \E c \in Ended("getAttributes") :
        /\ calls[c].response.error = ServiceUnavailable
        /\ calls[c].requests = 1
        /\ calls[c].outcome.state = "rejected"


\* the items the adapter's table holds under the hash key value `key`
ItemsUnder(key) ==
    IF tableName \notin TableNames \/ tableKeySchema[tableName] = "" THEN {}
    ELSE { item \in tableItems[tableName] :
             item[tableKeySchema[tableName]].s = key }

\* all that ItemsUnder and ReadOf depend on
ReadFrom == <<tableName, attributesName, tableKeySchema, tableItems>>

\* what a getAttributes served now would return for `key`
ReadOf(key) ==
    getAttributesResult([ok |-> TRUE, Item |-> ItemsUnder(key), error |-> NoStoreError])

\* the step in which the store serves a save or a delete of invocation c
ServesMutation(c) ==
    /\ calls[c].pc = "awaiting" /\ calls'[c].pc = "settled"
    /\ calls[c].op \in {"saveAttributes", "deleteAttributes"}

\* C11: a saveAttributes or deleteAttributes whose context derives
\* identifier A changes only the record keyed by A: in every step of a
\* constructed adapter, the record of an identifier B and what getAttributes
\* would return for B change only if that step serves a save or a delete
\* whose identifier is B.
C11_Isolation ==
    [][(constructed = "returned" /\ ReadFrom' # ReadFrom) =>
          \A key \in KeyStrings :
              (ItemsUnder(key)' # ItemsUnder(key) \/ ReadOf(key)' # ReadOf(key)) =>
                  \E c \in Callers : ServesMutation(c) /\ IdentifierOf(c) = key]_vars

C11_Witness ==
    /\ tableName = "mockTableName"
    /\ \E c \in Ended("saveAttributes") :
          /\ calls[c].response.ok
          /\ IdentifierOf(c) = "NonExistentKey"
          /\ calls[c].attributes = JsObject(("customKey" :> JsString("customValue")))
    /\ ReadOf("NonExistentKey") = JsObject(("customKey" :> JsString("customValue")))
    /\ ReadOf("userId") = JsObject(("defaultKey" :> JsString("defaultValue")))
    /\ ItemsUnder("deviceId") = { ("id" :> AttrS("deviceId")) @@ ("attributes" :> AttrNull) }


\* whether the configured generator fails for the context of invocation c
GeneratorFails(c) ==
    ~CallGenerator(partitionKeyGenerator, calls[c].requestEnvelope).ok

\* C12: an invocation whose generator fails ends at once, with no command
\* built and none served by the store, and the step that begins it leaves
\* the store's tables and items as they were.
C12_GeneratorFailureLeavesStore ==
    [][\A c \in Callers :
          (calls'[c].pc # "idle" /\ GeneratorFails(c)') =>
              /\ calls'[c].pc = "done"
              /\ calls'[c].command = NoCommand
              /\ calls'[c].requests = 0
              /\ calls'[c] # calls[c] => storeVars' = storeVars]_vars

C12_Witness ==
    /\ tableName = "mockTableName"
    /\ tableItems[tableName] = InitialItems
    /\ \E c \in Ended("saveAttributes") :
          GeneratorFails(c) /\ calls[c].requests = 0 /\ calls[c].command = NoCommand
    /\ \E c \in Ended("getAttributes") \cup Ended("deleteAttributes") :
          GeneratorFails(c) /\ calls[c].requests = 0 /\ calls[c].command = NoCommand

====
